---- MODULE Spec2Model ----
(***************************************************************************)
(* Model of the pharmacy point-of-sale: the Medicine / Sale / SaleItem     *)
(* tables of inventory/models.py and the handlers of inventory/views.py    *)
(* and inventory/admin.py that change them.                                *)
(*                                                                         *)
(* Spec      one request at a time: every handler is one atomic step.      *)
(* ConcSpec  two pos_view transactions interleaved statement by statement  *)
(*           on a READ COMMITTED store with row locks; the statements use  *)
(*           the same operators as the atomic handler.                     *)
(* AnySpec, PriceSpec, ActiveSpec, ClerkSpec, PosSpec                      *)
(*           pos_view served one request at a time, with requests of any   *)
(*           content, with price edits, with deactivated medicines, with a *)
(*           user without change_sale, and on its own.                     *)
(* AccountSpec  the saves of user accounts and the Profile table.          *)
(***************************************************************************)
EXTENDS Integers, Sequences, FiniteSets, TLC

\* ---------------------------------------------------------------- bounds
MaxStock == 2
MaxQty == 1

Medicines == {"A", "B"}
SaleKeys == {1}
QtySet == (-1)..MaxQty
Fees == {0, 1}
Customers == {"c"}
Users == {"admin"}
None == "None"

\* ------------------------------------------------------------ permissions
\* is_admin: the profile role of the user is 'admin'.
is_admin(user) == user = "admin"

\* The permission codenames granted to a non-admin profile.
profile_permissions(user) == IF user = "clerk" THEN {"add_sale"} ELSE {}

user_has_permission(user, perm_codename) ==
    IF is_admin(user) THEN TRUE ELSE perm_codename \in profile_permissions(user)

\* ------------------------------------------------------------------ rows
\* Medicine.selling_price: the price the POS page puts on a cart line.
selling_price == [m \in Medicines |-> IF m = "A" THEN 1 ELSE 2]

\* The column declared as a plain IntegerField: no constraint.
PositiveIntegerField_unchecked(v) == TRUE

\* PositiveIntegerField: the column carries the constraint value >= 0.
PositiveIntegerField(v) == v >= 0

\* Sale.objects.create(): a row with the field defaults.
NewSale == [created_by |-> None, delivery_fee |-> 0, total_amount |-> 0,
            customer |-> ""]

\* SaleItem.subtotal
subtotal(item) == item.quantity * item.price_at_sale

RECURSIVE SumSeq(_)
SumSeq(s) == IF s = << >> THEN 0 ELSE Head(s) + SumSeq(Tail(s))

\* sale.items.all(): the SaleItem rows of one sale, in primary-key order.
sale_items(its, pk) == SelectSeq(its, LAMBDA it : it.sale = pk)

items_total(its, pk) ==
    LET rows == sale_items(its, pk)
    IN  SumSeq([i \in 1..Len(rows) |-> subtotal(rows[i])])

\* The total without the delivery fee.
update_total_without_fee(sale, its, pk) ==
    [sale EXCEPT !.total_amount = items_total(its, pk)]

\* Sale.update_total
update_total(sale, its, pk) ==
    [sale EXCEPT !.total_amount = items_total(its, pk) + sale.delivery_fee]

\* ------------------------------------------------------------- variables
VARIABLES quantity,   \* Medicine.quantity of every medicine row
          sales,      \* the Sale table: sales[pk] is the row with that key
          items,      \* the SaleItem table, in primary-key order
          last,       \* the request just handled, the state it met, its response
          txn,        \* the pos_view transactions in progress, one per worker
          initial,    \* the rows the concurrent transactions started from
          medicine_price, \* Medicine.selling_price of every medicine row
          is_active,  \* the is_active flag of every medicine row
          users,      \* the User table: per account, saved or not and is_superuser
          profiles    \* the Profile table, in primary-key order

\* The Medicine columns that pos_view never writes, and the account tables.
catalogue == <<medicine_price, is_active>>
accounts == <<users, profiles>>

vars == <<quantity, sales, items, last, txn, initial, catalogue, accounts>>

DB == [quantity |-> quantity, sales |-> sales, items |-> items]

\* The user accounts the account handlers work on, and an account before its
\* first save.
Accounts == {"root", "ann", "bob"}
NoUser == [saved |-> FALSE, is_superuser |-> FALSE, password |-> ""]

\* A fresh installation: every medicine active at the price it was entered
\* with, no user account and no profile.
Fresh ==
    /\ medicine_price = selling_price
    /\ is_active = [m \in Medicines |-> TRUE]
    /\ users = [u \in Accounts |-> NoUser]
    /\ profiles = << >>

\* ------------------------------------------------------------- pos_view
\* A transaction in progress: the rows as the transaction sees them and the
\* exception raised so far (None while it runs); line counts the cart lines
\* the loop has started on, so that it tells where an exception was raised.
Running(db) == [db |-> db, error |-> None, line |-> 0]

Raise(st, e) == IF st.error = None THEN [st EXCEPT !.error = e] ELSE st

\* medicine.quantity = F('quantity') + delta; medicine.save(update_fields=['quantity'])
SaveQuantity(st, m, delta) ==
    IF st.error # None THEN st
    ELSE LET q == st.db.quantity[m] + delta
         IN  IF PositiveIntegerField(q)
             THEN [st EXCEPT !.db.quantity[m] = q]
             ELSE Raise(st, "IntegrityError")

\* The old items deleted without returning their quantity to stock.
RestoreStock_skipped(st, old) == st

\* for old_item in sale.items.all(): return the item's quantity to stock
RECURSIVE RestoreStock(_, _)
RestoreStock(st, old) ==
    IF old = << >> THEN st
    ELSE RestoreStock(SaveQuantity(st, Head(old).medicine, Head(old).quantity),
                      Tail(old))

\* The old items left in place.
DeleteItems_none(st, pk) == st

\* sale.items.all().delete()
DeleteItems(st, pk) ==
    IF st.error # None THEN st
    ELSE [st EXCEPT !.db.items = SelectSeq(@, LAMBDA it : it.sale # pk)]

\* SaleItem.objects.create(...)
CreateItem(st, row) ==
    IF st.error # None THEN st
    ELSE IF PositiveIntegerField(row.quantity)
         THEN [st EXCEPT !.db.items = Append(@, row)]
         ELSE Raise(st, "IntegrityError")

\* The check written with <= : the last unit in stock cannot be sold.
StockCheck_off_by_one(st, m, quantity_sold) ==
    IF st.error # None THEN st
    ELSE IF st.db.quantity[m] <= quantity_sold
         THEN Raise(st, "ValueError")
         ELSE st

\* if medicine.quantity < quantity_sold: raise ValueError
StockCheck(st, m, quantity_sold) ==
    IF st.error # None THEN st
    ELSE IF st.db.quantity[m] < quantity_sold
         THEN Raise(st, "ValueError")
         ELSE st

\* The pass that creates the item and leaves the stock as it is.
SellLine_without_decrement(st, pk, item_data) ==
    CreateItem(StockCheck(st, item_data.id, item_data.quantity),
               [sale |-> pk, medicine |-> item_data.id,
                quantity |-> item_data.quantity,
                price_at_sale |-> item_data.price])

\* One pass of the loop over cart_data.
SellLine(st, pk, item_data) ==
    LET begun == IF st.error = None THEN [st EXCEPT !.line = @ + 1] ELSE st
        checked == StockCheck(begun, item_data.id, item_data.quantity)
        created == CreateItem(checked,
                              [sale |-> pk, medicine |-> item_data.id,
                               quantity |-> item_data.quantity,
                               price_at_sale |-> item_data.price])
    IN  SaveQuantity(created, item_data.id, 0 - item_data.quantity)

RECURSIVE SellCart(_, _, _)
SellCart(st, pk, cart_data) ==
    IF cart_data = << >> THEN st
    ELSE SellCart(SellLine(st, pk, Head(cart_data)), pk, Tail(cart_data))

\* sale.created_by = request.user; sale.delivery_fee = delivery_fee; ...
with_request_fields(sale, req) ==
    [sale EXCEPT !.created_by = req.user,
                 !.delivery_fee = req.delivery_fee,
                 !.customer = req.customer]

\* ...; sale.save()
SaveSale(st, pk, req) ==
    IF st.error # None THEN st
    ELSE [st EXCEPT !.db.sales[pk] = with_request_fields(@, req)]

UpdateTotal(st, pk) ==
    IF st.error # None THEN st
    ELSE [st EXCEPT !.db.sales[pk] = update_total(@, st.db.items, pk)]

\* The branch taken on the sale_id alone, whoever sends it.
IsAmend_unchecked(req) == req.sale_id # 0

\* if sale_id and user_has_permission(request.user, 'change_sale')
IsAmend(req) ==
    req.sale_id # 0 /\ user_has_permission(req.user, "change_sale")

\* The key of the sale the request works on.
TargetSale(db, req) == IF IsAmend(req) THEN req.sale_id ELSE Len(db.sales) + 1

\* The first branch of the atomic block: the sale to work on.
OpenSale(st, req) ==
    IF IsAmend(req)
    THEN IF req.sale_id \in DOMAIN st.db.sales
         THEN DeleteItems(RestoreStock(st, sale_items(st.db.items, req.sale_id)),
                          req.sale_id)
         ELSE Raise(st, "Http404")
    ELSE [st EXCEPT !.db.sales = Append(@, NewSale)]

\* with transaction.atomic(): ... ; the state at the end of the block.
AtomicBlock(db, req) ==
    LET pk == TargetSale(db, req)
        opened == OpenSale(Running(db), req)
        saved == SaveSale(opened, pk, req)
        sold == SellCart(saved, pk, req.cart)
    IN  UpdateTotal(sold, pk)

\* The block without transaction.atomic: what it wrote stays.
Committed_without_rollback(db, st) == st.db

\* Only the sale and item rows rolled back, the stock writes kept.
Committed_keeps_stock(db, st) ==
    IF st.error = None THEN st.db ELSE [db EXCEPT !.quantity = st.db.quantity]

\* The rows after the block: its rows when it ends without an exception,
\* the rows before it otherwise (transaction.atomic rolls the block back).
Committed(db, st) == IF st.error = None THEN st.db ELSE db

\* The JsonResponse of the request.
Response(pk, st) ==
    IF st.error = None
    THEN [status |-> "success", sale_id |-> pk, message |-> None, line |-> 0]
    ELSE [status |-> "error", sale_id |-> 0, message |-> st.error, line |-> st.line]

\* ---------------------------------------------------------------- inputs
Lines == {[id |-> m, quantity |-> q, price |-> selling_price[m]] :
              m \in Medicines, q \in QtySet}
Carts == {<< >>} \cup {<<l>> : l \in Lines} \cup {<<l, k>> : l \in Lines, k \in Lines}
Requests == [user : Users, cart : Carts, delivery_fee : Fees,
             customer : Customers, sale_id : {0} \cup SaleKeys]

\* ----------------------------------------------------------- transactions
\* The two server workers that can each run one pos_view request.
Workers == {"t1", "t2"}

Other(t) == CHOOSE u \in Workers : u # t

\* A worker with no request: pc is the statement it is at; old the old
\* items still to restore; todo the cart lines still to sell; written the
\* Medicine rows it has updated (and holds the row lock of) with wq their
\* uncommitted quantity; del the committed SaleItem rows it has deleted (by
\* position in items); ins the SaleItem rows it has inserted; row its copy of
\* the Sale row and saved whether it has written it (and holds its lock).
Idle == [pc |-> "idle", req |-> << >>, pk |-> 0, old |-> << >>, todo |-> << >>,
         written |-> {}, wq |-> [m \in Medicines |-> 0], del |-> {},
         ins |-> << >>, row |-> NewSale, saved |-> FALSE, error |-> None]

\* --------------------------------------------------------------- actions
Init ==
    /\ quantity \in [Medicines -> 0..MaxStock]
    /\ sales = << >>
    /\ items = << >>
    /\ last = << >>
    /\ txn = [t \in Workers |-> Idle]
    /\ initial = << >>
    /\ Fresh

\* pos_view, POST. The table holds the sale keys of keys: a request that
\* would add a sale beyond them is not taken.
PosViewWithin(req, keys) ==
    /\ last = << >>
    /\ user_has_permission(req.user, "add_sale")
    /\ (~IsAmend(req)) => Len(sales) + 1 \in keys
    /\ LET st == AtomicBlock(DB, req)
           db == Committed(DB, st)
       IN  /\ quantity' = db.quantity
           /\ sales' = db.sales
           /\ items' = db.items
           /\ last' = <<[request |-> req, before |-> DB,
                         response |-> Response(TargetSale(DB, req), st)]>>
    /\ UNCHANGED <<txn, initial, catalogue, accounts>>

\* pos_view, POST, with the sale table of SaleKeys.
PosView(req) == PosViewWithin(req, SaleKeys)

\* The quantity of medicine m held by the SaleItem rows.
Held(its, m) ==
    SumSeq([i \in 1..Len(its) |-> IF its[i].medicine = m THEN its[i].quantity ELSE 0])

\* MedicineUpdateView: the form saves the stock quantity typed in, the
\* selling price being submitted as the form showed it. The stock
\* and what the items hold stay within MaxStock together.
MedicineUpdate(m, q) ==
    /\ last = << >>
    /\ PositiveIntegerField(q)
    /\ q + Held(items, m) <= MaxStock
    /\ quantity' = [quantity EXCEPT ![m] = q]
    /\ UNCHANGED <<sales, items, last, txn, initial, catalogue, accounts>>

\* SaleAdmin with SaleItemInline: the admin saves the row of one item with
\* a new quantity; nothing else is written.
SaleItemInline(i, q) ==
    /\ last = << >>
    /\ i \in DOMAIN items
    /\ PositiveIntegerField(q)
    /\ q # items[i].quantity
    /\ LET its == [items EXCEPT ![i].quantity = q]
       IN  /\ quantity[its[i].medicine] + Held(its, its[i].medicine) <= MaxStock
           /\ items' = its
    /\ UNCHANGED <<quantity, sales, last, txn, initial, catalogue, accounts>>

\* The JsonResponse reaches the client.
Return ==
    /\ last # << >>
    /\ last' = << >>
    /\ UNCHANGED <<quantity, sales, items, txn, initial, catalogue, accounts>>

Next ==
    \/ \E req \in Requests : PosView(req)
    \/ \E m \in Medicines, q \in 0..MaxStock : MedicineUpdate(m, q)
    \/ \E i \in DOMAIN items, q \in 0..MaxQty : SaleItemInline(i, q)
    \/ Return

Spec == Init /\ [][Next]_vars

\* ------------------------------------------- pos_view, statement by statement
\* The requests of the concurrent workers, and the store they start from:
\* any stock, with no sale or with one sale served before them.
ConcCarts ==
    {<< >>} \cup {<<l>> : l \in {k \in Lines : k.quantity > 0}}
    \cup {<<l, k>> : l \in {j \in Lines : j.quantity = 1 /\ j.id = "A"},
                     k \in {j \in Lines : j.quantity = 1 /\ j.id = "B"}}
    \cup {<<k, l>> : l \in {j \in Lines : j.quantity = 1 /\ j.id = "A"},
                     k \in {j \in Lines : j.quantity = 1 /\ j.id = "B"}}
ConcRequests == [user : Users, cart : ConcCarts, delivery_fee : {0},
                 customer : Customers, sale_id : {0} \cup SaleKeys]

EmptyStores ==
    {[quantity |-> q, sales |-> << >>, items |-> << >>] :
        q \in [Medicines -> 0..MaxStock]}

InitialStores ==
    EmptyStores
    \cup {Committed(e, AtomicBlock(e, r)) :
             e \in EmptyStores, r \in {c \in ConcRequests : c.sale_id = 0}}

\* The rows of its without those at the positions D, from position i on.
RECURSIVE DropRows(_, _, _)
DropRows(its, D, i) ==
    IF i > Len(its) THEN << >>
    ELSE (IF i \in D THEN << >> ELSE <<its[i]>>) \o DropRows(its, D, i + 1)

\* What worker t reads (READ COMMITTED): the committed rows and its own
\* uncommitted writes.
View(t) ==
    [quantity |-> [m \in Medicines |->
                      IF m \in txn[t].written THEN txn[t].wq[m] ELSE quantity[m]],
     sales |-> sales,
     items |-> DropRows(items, txn[t].del, 1) \o txn[t].ins]

\* The positions of the committed SaleItem rows of sale pk.
RowsOf(pk) == {i \in DOMAIN items : items[i].sale = pk}

\* The worker's request ends: with an exception its writes are discarded.
Ended(t, pk, e) ==
    [Idle EXCEPT !.pc = "done", !.req = txn[t].req, !.pk = pk, !.error = e]

\* The statement worker t is at waits for a row lock the other worker holds.
Blocked(t) ==
    LET me == txn[t]
        o == txn[Other(t)]
    IN  \/ me.pc = "restore" /\ Head(me.old).medicine \in o.written
        \/ me.pc = "decrement" /\ Head(me.todo).id \in o.written
        \/ me.pc = "delete" /\ RowsOf(me.pk) \cap o.del # {}
        \/ me.pc = "save" /\ me.pk # 0 /\ o.saved /\ o.pk = me.pk

ConcInit ==
    /\ initial \in InitialStores
    /\ quantity = initial.quantity
    /\ sales = initial.sales
    /\ items = initial.items
    /\ last = << >>
    /\ txn = [t \in Workers |-> Idle]
    /\ Fresh

\* A worker receives a POST and enters the atomic block.
Begin(t, req) ==
    /\ txn[t].pc = "idle"
    /\ user_has_permission(req.user, "add_sale")
    /\ txn' = [txn EXCEPT ![t] = [Idle EXCEPT !.pc = "open", !.req = req,
                                              !.todo = req.cart]]
    /\ UNCHANGED <<quantity, sales, items, last, initial, catalogue, accounts>>

\* get_object_or_404(Sale, pk=sale_id) and the query of sale.items.all(), or
\* Sale.objects.create().
Open(t) ==
    /\ txn[t].pc = "open"
    /\ LET req == txn[t].req
       IN  txn' = [txn EXCEPT ![t] =
              IF ~IsAmend(req)
              THEN [@ EXCEPT !.pc = "save", !.row = NewSale]
              ELSE IF req.sale_id \notin DOMAIN sales
                   THEN Ended(t, 0, "Http404")
                   ELSE LET old == sale_items(items, req.sale_id)
                        IN  [@ EXCEPT !.pc = IF old = << >> THEN "delete"
                                                           ELSE "restore",
                                      !.pk = req.sale_id,
                                      !.row = sales[req.sale_id],
                                      !.old = old]]
    /\ UNCHANGED <<quantity, sales, items, last, initial, catalogue, accounts>>

\* One pass of the loop over the old items: UPDATE quantity = quantity + n.
Restore(t) ==
    /\ txn[t].pc = "restore"
    /\ ~Blocked(t)
    /\ LET me == txn[t]
           m == Head(me.old).medicine
           st == SaveQuantity(Running(View(t)), m, Head(me.old).quantity)
       IN  txn' = [txn EXCEPT ![t] =
              IF st.error # None THEN Ended(t, 0, st.error)
              ELSE [@ EXCEPT !.wq[m] = st.db.quantity[m],
                             !.written = @ \cup {m},
                             !.old = Tail(@),
                             !.pc = IF Tail(me.old) = << >> THEN "delete"
                                                           ELSE "restore"]]
    /\ UNCHANGED <<quantity, sales, items, last, initial, catalogue, accounts>>

\* sale.items.all().delete(): DELETE the rows of the sale that are committed.
Delete(t) ==
    /\ txn[t].pc = "delete"
    /\ ~Blocked(t)
    /\ txn' = [txn EXCEPT ![t] = [@ EXCEPT !.del = RowsOf(txn[t].pk),
                                            !.pc = "save"]]
    /\ UNCHANGED <<quantity, sales, items, last, initial, catalogue, accounts>>

\* sale.save(): UPDATE of the Sale row with the request's fields.
Save(t) ==
    /\ txn[t].pc = "save"
    /\ ~Blocked(t)
    /\ txn' = [txn EXCEPT ![t] =
                  [@ EXCEPT !.row = with_request_fields(@, txn[t].req),
                            !.saved = TRUE,
                            !.pc = IF txn[t].todo = << >> THEN "total"
                                                          ELSE "check"]]
    /\ UNCHANGED <<quantity, sales, items, last, initial, catalogue, accounts>>

\* Medicine.objects.get, the stock check and SaleItem.objects.create.
Check(t) ==
    /\ txn[t].pc = "check"
    /\ LET me == txn[t]
           line == Head(me.todo)
           row == [sale |-> me.pk, medicine |-> line.id,
                   quantity |-> line.quantity, price_at_sale |-> line.price]
           st == CreateItem(StockCheck(Running(View(t)), line.id, line.quantity),
                            row)
       IN  txn' = [txn EXCEPT ![t] =
              IF st.error # None THEN Ended(t, 0, st.error)
              ELSE [@ EXCEPT !.ins = Append(@, row), !.pc = "decrement"]]
    /\ UNCHANGED <<quantity, sales, items, last, initial, catalogue, accounts>>

\* medicine.save(update_fields=['quantity']): UPDATE quantity = quantity - n.
Decrement(t) ==
    /\ txn[t].pc = "decrement"
    /\ ~Blocked(t)
    /\ LET me == txn[t]
           m == Head(me.todo).id
           st == SaveQuantity(Running(View(t)), m, 0 - Head(me.todo).quantity)
       IN  txn' = [txn EXCEPT ![t] =
              IF st.error # None THEN Ended(t, 0, st.error)
              ELSE [@ EXCEPT !.wq[m] = st.db.quantity[m],
                             !.written = @ \cup {m},
                             !.todo = Tail(@),
                             !.pc = IF Tail(me.todo) = << >> THEN "total"
                                                            ELSE "check"]]
    /\ UNCHANGED <<quantity, sales, items, last, initial, catalogue, accounts>>

\* sale.update_total(): the items query, the sum and the UPDATE of the row.
Total(t) ==
    /\ txn[t].pc = "total"
    /\ txn' = [txn EXCEPT ![t] =
                  [@ EXCEPT !.row = update_total(@, View(t).items, txn[t].pk),
                            !.pc = "commit"]]
    /\ UNCHANGED <<quantity, sales, items, last, initial, catalogue, accounts>>

\* The atomic block ends without an exception: COMMIT. The new sale gets its
\* place in the table; the positions the other worker has deleted move up
\* past the rows removed here.
Commit(t) ==
    /\ txn[t].pc = "commit"
    /\ LET me == txn[t]
           u == Other(t)
           pk == IF me.pk = 0 THEN Len(sales) + 1 ELSE me.pk
       IN  /\ quantity' = View(t).quantity
           /\ sales' = IF me.pk = 0 THEN Append(sales, me.row)
                                    ELSE [sales EXCEPT ![pk] = me.row]
           /\ items' = DropRows(items, me.del, 1)
                       \o [i \in 1..Len(me.ins) |-> [me.ins[i] EXCEPT !.sale = pk]]
           /\ txn' = [txn EXCEPT
                         ![t] = Ended(t, pk, None),
                         ![u].del = {j - Cardinality({d \in me.del : d < j}) :
                                        j \in txn[u].del}]
    /\ UNCHANGED <<last, initial, catalogue, accounts>>

\* The store gives up a lock wait (deadlock detected, lock wait timed out):
\* the statement raises OperationalError.
OperationalError(t) ==
    /\ txn[t].pc \in {"restore", "delete", "save", "decrement"}
    /\ Blocked(t)
    /\ txn' = [txn EXCEPT ![t] = Ended(t, 0, "OperationalError")]
    /\ UNCHANGED <<quantity, sales, items, last, initial, catalogue, accounts>>

ConcNext ==
    \E t \in Workers :
        \/ \E req \in ConcRequests : Begin(t, req)
        \/ Open(t)
        \/ Restore(t)
        \/ Delete(t)
        \/ Save(t)
        \/ Check(t)
        \/ Decrement(t)
        \/ Total(t)
        \/ Commit(t)
        \/ OperationalError(t)

ConcSpec == ConcInit /\ [][ConcNext]_vars

\* --------------------------------------------- requests of any content
\* The body of a POST is whatever the client sends: int() accepts every
\* integer for a quantity, a price and the delivery fee.
AnyPrices == {-1, 1, 2}
AnyFees == {-1, 0, 1}
AnyLines == {[id |-> m, quantity |-> q, price |-> p] :
                m \in Medicines, q \in QtySet, p \in AnyPrices}
AnyRequests == [user : Users, cart : {<< >>} \cup {<<l>> : l \in AnyLines},
                delivery_fee : AnyFees, customer : Customers,
                sale_id : {0} \cup SaleKeys]

AnyNext ==
    \/ \E req \in AnyRequests : PosView(req)
    \/ Return

AnySpec == Init /\ [][AnyNext]_vars

\* ------------------------------------------------ the price of a medicine
\* The prices a medicine can be given, and the requests that carry one of
\* them on the cart line: the POS page fills in the price it was rendered
\* with, and the client posts it back.
Prices == {1, 2}
PriceLines == {[id |-> m, quantity |-> q, price |-> p] :
                  m \in Medicines, q \in 1..MaxQty, p \in Prices}
PriceRequests == [user : Users, cart : {<<l>> : l \in PriceLines},
                  delivery_fee : {0}, customer : Customers,
                  sale_id : {0} \cup SaleKeys]

\* MedicineUpdateView: the form saves the stock quantity and the selling
\* price typed in.
MedicineUpdateView(m, q, p) ==
    /\ last = << >>
    /\ PositiveIntegerField(q)
    /\ q + Held(items, m) <= MaxStock
    /\ quantity' = [quantity EXCEPT ![m] = q]
    /\ medicine_price' = [medicine_price EXCEPT ![m] = p]
    /\ UNCHANGED <<sales, items, last, txn, initial, is_active, accounts>>

PriceNext ==
    \/ \E req \in PriceRequests : PosView(req)
    \/ \E m \in Medicines, q \in 0..MaxStock, p \in Prices :
          MedicineUpdateView(m, q, p)
    \/ Return

PriceSpec == Init /\ [][PriceNext]_vars

\* ------------------------------------------------- deactivated medicines
\* MedicineDeleteView.post: the medicine is not deleted, its is_active flag
\* is set to False and the row saved.
MedicineDeleteView(m) ==
    /\ last = << >>
    /\ is_active' = [is_active EXCEPT ![m] = FALSE]
    /\ UNCHANGED <<quantity, sales, items, last, txn, initial, medicine_price,
                   accounts>>

\* Requests with at most one line, of a positive quantity.
ShortRequests ==
    {r \in Requests : /\ Len(r.cart) <= 1
                      /\ \A i \in 1..Len(r.cart) : r.cart[i].quantity > 0
                      /\ r.delivery_fee = 0}

ActiveNext ==
    \/ \E m \in Medicines : MedicineDeleteView(m)
    \/ \E req \in ShortRequests : PosView(req)
    \/ Return

ActiveSpec == Init /\ [][ActiveNext]_vars

\* ------------------------------------------- a user without change_sale
\* The admin and a staff user whose profile grants add_sale only, on a sale
\* table of two keys; a request may name either key, or none.
ClerkUsers == {"admin", "clerk"}
ClerkSaleKeys == {1, 2}
ClerkRequests ==
    [user : ClerkUsers,
     cart : {<< >>} \cup {<<l>> : l \in {k \in Lines : k.quantity > 0}},
     delivery_fee : Fees, customer : Customers,
     sale_id : {0} \cup ClerkSaleKeys]

ClerkNext ==
    \/ \E req \in ClerkRequests : PosViewWithin(req, ClerkSaleKeys)
    \/ Return

ClerkSpec == Init /\ [][ClerkNext]_vars

\* ------------------------------------------------- accounts and profiles
Passwords == {"p1", "p2"}

\* user.profile: whether the account has a Profile row, and that row's role.
HasProfile(ps, instance) == \E i \in DOMAIN ps : ps[i].user = instance
RoleOf(ps, instance) == ps[CHOOSE i \in DOMAIN ps : ps[i].user = instance].role

\* Profile.objects.create(user=instance): the role is blank; the one-to-one
\* column is unique, a second row for the account is refused.
ProfileCreate(ps, instance) ==
    IF HasProfile(ps, instance) THEN ps
    ELSE Append(ps, [user |-> instance, role |-> ""])

\* instance.profile.role = role; instance.profile.save()
ProfileSetRole(ps, instance, role) ==
    [i \in DOMAIN ps |->
        IF ps[i].user = instance THEN [ps[i] EXCEPT !.role = role] ELSE ps[i]]

\* The receiver with the role brought in line only when the account is new.
create_or_update_user_profile_created_only(ps, instance, is_superuser, created) ==
    IF ~created THEN ps
    ELSE LET made == ProfileCreate(ps, instance)
         IN  IF is_superuser THEN ProfileSetRole(made, instance, "admin") ELSE made

\* The post_save receiver of User: the Profile table after it has run. An
\* account without a profile makes instance.profile raise, and nothing more
\* is written.
create_or_update_user_profile(ps, instance, is_superuser, created) ==
    LET made == IF created THEN ProfileCreate(ps, instance) ELSE ps
    IN  IF is_superuser /\ HasProfile(made, instance)
           /\ RoleOf(made, instance) # "admin"
        THEN ProfileSetRole(made, instance, "admin")
        ELSE made

\* is_admin(request.user) for some account: the views of staff management
\* are open to it.
SomeAdmin ==
    \E a \in Accounts :
        users[a].saved /\ HasProfile(profiles, a) /\ RoleOf(profiles, a) = "admin"

\* An account is created (create_user, createsuperuser): its first save.
UserCreate(u, is_superuser, password) ==
    /\ ~users[u].saved
    /\ users' = [users EXCEPT ![u] = [saved |-> TRUE,
                                      is_superuser |-> is_superuser,
                                      password |-> password]]
    /\ profiles' = create_or_update_user_profile(profiles, u, is_superuser, TRUE)
    /\ UNCHANGED <<quantity, sales, items, last, txn, initial, catalogue>>

\* manage_staff_view, POST: StaffCreationForm.save() saves the new user and
\* then sets the role of its profile.
StaffCreation(u, password) ==
    /\ SomeAdmin
    /\ ~users[u].saved
    /\ users' = [users EXCEPT ![u] = [saved |-> TRUE, is_superuser |-> FALSE,
                                      password |-> password]]
    /\ profiles' = ProfileSetRole(
                       create_or_update_user_profile(profiles, u, FALSE, TRUE),
                       u, "staff")
    /\ UNCHANGED <<quantity, sales, items, last, txn, initial, catalogue>>

\* edit_staff_view, POST: the password of a staff or admin account is set
\* and the account saved.
edit_staff_view(u, password) ==
    /\ SomeAdmin
    /\ users[u].saved
    /\ HasProfile(profiles, u) /\ RoleOf(profiles, u) \in {"staff", "admin"}
    /\ users' = [users EXCEPT ![u].password = password]
    /\ profiles' = create_or_update_user_profile(profiles, u,
                                                 users[u].is_superuser, FALSE)
    /\ UNCHANGED <<quantity, sales, items, last, txn, initial, catalogue>>

\* Any other save of an existing account, with the superuser flag it then
\* carries.
UserSave(u, is_superuser) ==
    /\ users[u].saved
    /\ users' = [users EXCEPT ![u].is_superuser = is_superuser]
    /\ profiles' = create_or_update_user_profile(profiles, u, is_superuser, FALSE)
    /\ UNCHANGED <<quantity, sales, items, last, txn, initial, catalogue>>

AccountNext ==
    \E u \in Accounts :
        \/ \E su \in BOOLEAN, p \in Passwords : UserCreate(u, su, p)
        \/ \E p \in Passwords : StaffCreation(u, p)
        \/ \E p \in Passwords : edit_staff_view(u, p)
        \/ \E su \in BOOLEAN : UserSave(u, su)

AccountSpec == Init /\ [][AccountNext]_vars

\* ------------------------------------------------- pos_view requests only
\* Requests served one after the other, from any stock with no sale or with
\* one sale served before; no other handler runs. The carts are those of
\* Requests, negative and zero quantities included, without a delivery fee.
PosRequests == {r \in Requests : r.delivery_fee = 0}

PosNext ==
    \/ \E req \in PosRequests : PosView(req)
    \/ Return

PosSpec == ConcInit /\ [][PosNext]_vars

\* ------------------------------------------------- the request just handled
Handled == last # << >>
Req == last[1].request
Before == last[1].before
Resp == last[1].response
Succeeded == Resp.status = "success"

\* The request created a new sale / worked on an existing one.
NewSaleRequest == Handled /\ ~IsAmend(Req)
AmendRequest == Handled /\ IsAmend(Req) /\ Req.sale_id \in DOMAIN Before.sales

\* The quantity of medicine m a cart asks for, over all its lines.
Demand(cart, m) ==
    SumSeq([i \in 1..Len(cart) |-> IF cart[i].id = m THEN cart[i].quantity ELSE 0])

\* The sum of quantity * price over the lines of a cart.
CartTotal(cart) ==
    SumSeq([i \in 1..Len(cart) |-> cart[i].quantity * cart[i].price])

\* The SaleItem rows that a cart describes for sale pk.
AsRows(cart, pk) ==
    [i \in 1..Len(cart) |-> [sale |-> pk, medicine |-> cart[i].id,
                             quantity |-> cart[i].quantity,
                             price_at_sale |-> cart[i].price]]

AllPositive(cart) == \A i \in 1..Len(cart) : cart[i].quantity > 0

\* The stock that line i of the cart meets when the lines before it were sold
\* from stock q0.
StockMet(cart, i, q0) ==
    q0[cart[i].id]
    - SumSeq([j \in 1..(i - 1) |->
                 IF cart[j].id = cart[i].id THEN cart[j].quantity ELSE 0])

\* Line i is reached: every line before it was sold.
Reached(cart, i, q0) ==
    \A j \in 1..(i - 1) :
        cart[j].quantity >= 0 /\ cart[j].quantity <= StockMet(cart, j, q0)

\* Some line asks for more than the stock it meets when it is processed.
Overdrawn(cart, q0) ==
    \E i \in 1..Len(cart) :
        Reached(cart, i, q0) /\ cart[i].quantity > StockMet(cart, i, q0)

\* The quantity of m held by the items the sale had before the request.
HeldBefore(m) == Held(sale_items(Before.items, Req.sale_id), m)

\* What a successful new sale leaves behind.
ApplyPost ==
    /\ Succeeded
    /\ \A m \in Medicines :
          quantity[m] = Before.quantity[m] - Demand(Req.cart, m)
    /\ sales[Resp.sale_id].total_amount = CartTotal(Req.cart) + Req.delivery_fee

\* C1 as stated: a new sale whose every line asks for no more than the current
\* stock of its medicine succeeds, takes the summed quantities from stock and
\* totals the subtotals plus the delivery fee.
C1_EveryLineWithinStock ==
    (NewSaleRequest
       /\ \A i \in 1..Len(Req.cart) :
             Req.cart[i].quantity <= Before.quantity[Req.cart[i].id])
    => ApplyPost

\* C1 amended: a new sale whose line quantities are positive and whose summed
\* quantity per medicine is no more than the current stock of that medicine
\* succeeds, takes exactly the summed quantities from stock and totals the
\* subtotals plus the delivery fee.
C1_CartWithinStock ==
    (NewSaleRequest /\ AllPositive(Req.cart)
       /\ \A m \in Medicines : Demand(Req.cart, m) <= Before.quantity[m])
    => ApplyPost

C1_Witness ==
    /\ NewSaleRequest /\ Succeeded
    /\ Len(Req.cart) = 2 /\ AllPositive(Req.cart)
    /\ Req.cart[1].id = "A" /\ Req.cart[2].id = "B"
    /\ Req.delivery_fee = 1
    /\ quantity["A"] = Before.quantity["A"] - 1
    /\ sales[Resp.sale_id].total_amount = 4

\* C2: a new sale with a line that asks for more than the stock it meets when
\* it is processed fails for insufficient stock, and afterwards no medicine
\* quantity has changed and no sale or item has been added.
C2_OverdrawnSaleLeavesNothing ==
    (NewSaleRequest /\ Overdrawn(Req.cart, Before.quantity))
    => /\ Resp.status = "error"
       /\ Resp.message = "ValueError"
       /\ DB = Before

C2_Witness ==
    /\ NewSaleRequest
    /\ Len(Req.cart) = 2
    /\ Req.cart[1].id = "B" /\ Req.cart[1].quantity = 1
    /\ Before.quantity["B"] >= 1
    /\ Req.cart[2].id = "A" /\ Req.cart[2].quantity > Before.quantity["A"]
    /\ Resp.message = "ValueError"
    /\ DB = Before

\* C3: an amend that fails for insufficient stock leaves every medicine
\* quantity, the sale's items and every field of the sale as they were before
\* the attempt.
C3_FailedAmendRestoresAll ==
    (AmendRequest /\ Resp.message = "ValueError") => DB = Before

C3_Witness ==
    /\ AmendRequest /\ Resp.message = "ValueError"
    /\ \E m \in Medicines : HeldBefore(m) > 0
    /\ Req.delivery_fee # Before.sales[Req.sale_id].delivery_fee
    /\ DB = Before

\* C4: a successful amend replaces the items of the same sale by the cart:
\* no sale is added, the sale's items are the cart lines, every medicine has
\* its former quantity plus what the old items held minus what the cart asks
\* for, and the total is the cart's subtotals plus the new fee; and a cart of
\* positive quantities that fits the restored stock does succeed.
C4_AmendReplaces ==
    /\ (AmendRequest /\ Succeeded)
       => /\ Len(sales) = Len(Before.sales)
          /\ Resp.sale_id = Req.sale_id
          /\ sale_items(items, Req.sale_id) = AsRows(Req.cart, Req.sale_id)
          /\ \A m \in Medicines :
                quantity[m] = Before.quantity[m] + HeldBefore(m)
                              - Demand(Req.cart, m)
          /\ sales[Req.sale_id].total_amount
                = CartTotal(Req.cart) + Req.delivery_fee
    /\ (AmendRequest /\ AllPositive(Req.cart)
          /\ \A m \in Medicines :
                Demand(Req.cart, m) <= Before.quantity[m] + HeldBefore(m))
       => Succeeded

C4_Witness ==
    /\ AmendRequest /\ Succeeded
    /\ HeldBefore("A") = 1
    /\ Demand(Req.cart, "A") = 2
    /\ Before.quantity["A"] = 1
    /\ quantity["A"] = 0
    /\ Req.delivery_fee # Before.sales[Req.sale_id].delivery_fee

\* ------------------------------------------------- concurrent transactions
\* Worker t's request has ended, and ended with a COMMIT.
HasCommitted(t) == txn[t].pc = "done" /\ txn[t].error = None
BothEnded == \A t \in Workers : txn[t].pc = "done"

\* Both workers run a new sale, and medicine m has stock for either cart
\* alone but not for the two together.
EnoughForOneOnly(m) ==
    /\ \A t \in Workers : txn[t].pc # "idle" /\ ~IsAmend(txn[t].req)
    /\ \A t \in Workers : Demand(txn[t].req.cart, m) <= initial.quantity[m]
    /\ Demand(txn["t1"].req.cart, m) + Demand(txn["t2"].req.cart, m)
          > initial.quantity[m]

\* C5: of two concurrent new sales of a medicine with stock for either alone
\* but not for both, at most one commits, under every interleaving of their
\* statements; and no medicine quantity, committed or written by a running
\* transaction, is ever below zero.
C5_NoOverdraw ==
    /\ \A m \in Medicines : quantity[m] >= 0
    /\ \A t \in Workers : \A m \in txn[t].written : txn[t].wq[m] >= 0
    /\ \A m \in Medicines :
          EnoughForOneOnly(m) => ~(HasCommitted("t1") /\ HasCommitted("t2"))

\* Both passed the stock check on the same stock; the one that decremented
\* second was refused by the store and rolled back.
C5_Witness ==
    /\ EnoughForOneOnly("A")
    /\ BothEnded
    /\ HasCommitted("t1")
    /\ txn["t2"].error = "IntegrityError"
    /\ quantity["A"] = initial.quantity["A"] - Demand(txn["t1"].req.cart, "A")
    /\ Len(sales) = Len(initial.sales) + 1

\* The store after the requests reqs are served one after the other from db.
RECURSIVE SerialStore(_, _)
SerialStore(db, reqs) ==
    IF reqs = << >> THEN db
    ELSE SerialStore(Committed(db, AtomicBlock(db, Head(reqs))), Tail(reqs))

\* The same stock, the same sales and the same items sale by sale.
SameStore(a, b) ==
    /\ a.quantity = b.quantity
    /\ a.sales = b.sales
    /\ \A pk \in DOMAIN a.sales : sale_items(a.items, pk) = sale_items(b.items, pk)

\* The orders in which the committed requests can be served serially.
SerialOrders ==
    LET done == {t \in Workers : HasCommitted(t)}
    IN  IF done = {} THEN {<< >>}
        ELSE IF done = Workers
             THEN {<<txn["t1"].req, txn["t2"].req>>, <<txn["t2"].req, txn["t1"].req>>}
             ELSE {<<txn[t].req>> : t \in done}

\* C6: when two concurrent apply/amend transactions have ended, the stock,
\* the sales and every sale's items are those of serving the committed
\* requests one after the other in some order.
C6_Serializable ==
    BothEnded => \E o \in SerialOrders : SameStore(DB, SerialStore(initial, o))

\* C7: every medicine's quantity is >= 0 in every state, whatever integers
\* the cart lines carry.
C7_StockNeverNegative == \A m \in Medicines : quantity[m] >= 0

C7_Witness ==
    /\ Handled
    /\ \E i \in 1..Len(Req.cart) : Req.cart[i].quantity < 0
    /\ Resp.message = "IntegrityError"
    /\ \E m \in Medicines : quantity[m] = 0

\* C8: every sale's total_amount is the sum of its items' subtotals plus its
\* delivery fee, whichever operation last changed its items.
C8_TotalMatchesItems ==
    \A pk \in DOMAIN sales :
        sales[pk].total_amount = items_total(items, pk) + sales[pk].delivery_fee

\* The stock available to a two-line cart for one medicine when the lines
\* are applied: the current stock plus, on an amend, what the old items held.
Available(m) == Before.quantity[m] + (IF IsAmend(Req) THEN HeldBefore(m) ELSE 0)

TwoLinesOneMedicine ==
    /\ Handled
    /\ IsAmend(Req) => Req.sale_id \in DOMAIN Before.sales
    /\ Len(Req.cart) = 2
    /\ Req.cart[1].id = Req.cart[2].id

\* C9 as stated: a cart of two lines for one medicine succeeds exactly when
\* the two quantities together are no more than the stock available, and
\* otherwise fails at the second line with nothing retained.
C9_FailsAtSecondLine ==
    TwoLinesOneMedicine
    => LET m == Req.cart[1].id
           both == Req.cart[1].quantity + Req.cart[2].quantity
       IN  /\ Succeeded <=> both <= Available(m)
           /\ ~Succeeded => (Resp.line = 2 /\ DB = Before)

\* C9 amended: a cart of two lines of positive quantity for one medicine
\* succeeds exactly when the two quantities together are no more than the
\* stock available; otherwise it fails for insufficient stock with nothing
\* retained, at the first line when that line alone exceeds the stock and at
\* the second line when only the two together do.
C9_CumulativeCheck ==
    (TwoLinesOneMedicine /\ AllPositive(Req.cart))
    => LET m == Req.cart[1].id
           both == Req.cart[1].quantity + Req.cart[2].quantity
       IN  /\ Succeeded <=> both <= Available(m)
           /\ ~Succeeded
              => /\ Resp.message = "ValueError"
                 /\ Resp.line = (IF Req.cart[1].quantity > Available(m) THEN 1 ELSE 2)
                 /\ DB = Before

C9_Witness ==
    /\ TwoLinesOneMedicine /\ AllPositive(Req.cart)
    /\ Req.cart[1].quantity <= Available(Req.cart[1].id)
    /\ Req.cart[2].quantity <= Available(Req.cart[1].id)
    /\ ~Succeeded /\ Resp.line = 2
    /\ DB = Before

\* C10: an amend whose cart is the sale's current items and whose fee is the
\* sale's current fee succeeds and leaves every medicine quantity and the
\* sale's total_amount as they were.
C10_IdenticalAmendChangesNothing ==
    (AmendRequest
       /\ AsRows(Req.cart, Req.sale_id) = sale_items(Before.items, Req.sale_id)
       /\ Req.delivery_fee = Before.sales[Req.sale_id].delivery_fee)
    => /\ Succeeded
       /\ quantity = Before.quantity
       /\ sales[Req.sale_id].total_amount = Before.sales[Req.sale_id].total_amount

\* ------------------------------------------------------- malformed input
Malformed(req) ==
    \/ \E i \in 1..Len(req.cart) : req.cart[i].quantity <= 0
    \/ \E i \in 1..Len(req.cart) : req.cart[i].price < 0
    \/ req.delivery_fee < 0

\* C11: a request with a cart line of quantity <= 0, a negative unit price or
\* a negative delivery fee is answered with an error, and no sale, item or
\* medicine quantity has changed.
C11_MalformedRejected ==
    (Handled /\ Malformed(Req)) => (Resp.status = "error" /\ DB = Before)

\* ---------------------------------------------------------- price_at_sale
\* The items of the sale a successful request has just written.
ItemsWritten == {i \in DOMAIN items : items[i].sale = Resp.sale_id}

\* C12: every item created by a request has price_at_sale equal to the
\* selling price its medicine has when the request is served, and an edit of
\* a medicine's selling price leaves every item as it was.
C12_PriceAtSaleIsSellingPrice ==
    /\ [](Handled /\ Succeeded
            => \A i \in ItemsWritten :
                  items[i].price_at_sale = medicine_price[items[i].medicine])
    /\ [][medicine_price' # medicine_price => items' = items]_vars

\* ------------------------------------------------- deactivated medicines
\* C13: once MedicineDeleteView has set a medicine's is_active to False, no
\* request creates an item for it or lowers its quantity, and the items that
\* reference it stay when it is deactivated.
C13_InactiveNotSold ==
    /\ [](Handled
            => \A m \in Medicines :
                  ~is_active[m]
                  => /\ quantity[m] >= Before.quantity[m]
                     /\ Succeeded => \A i \in ItemsWritten : items[i].medicine # m)
    /\ [][is_active' # is_active => items' = items]_vars

\* ------------------------------------------------ sale_id without change_sale
\* The request names a sale and its sender does not hold change_sale.
Unpermitted ==
    /\ Handled
    /\ Req.sale_id # 0
    /\ ~user_has_permission(Req.user, "change_sale")

\* C14: a request that carries a sale_id from a user without change_sale is
\* served as a new sale: every sale there was, the referenced one included,
\* keeps its row and its items; no quantity is returned to stock; a success
\* adds one sale whose items are the cart and takes the cart's quantities
\* from stock, a failure changes nothing; and a cart of positive quantities
\* within stock succeeds.
C14_NoAmendWithoutPermission ==
    Unpermitted
    => /\ \A pk \in DOMAIN Before.sales :
             /\ sales[pk] = Before.sales[pk]
             /\ sale_items(items, pk) = sale_items(Before.items, pk)
       /\ Succeeded
          => /\ Len(sales) = Len(Before.sales) + 1
             /\ Resp.sale_id = Len(sales)
             /\ sale_items(items, Resp.sale_id) = AsRows(Req.cart, Resp.sale_id)
             /\ \A m \in Medicines :
                   quantity[m] = Before.quantity[m] - Demand(Req.cart, m)
       /\ ~Succeeded => DB = Before
       /\ (AllPositive(Req.cart)
             /\ \A m \in Medicines : Demand(Req.cart, m) <= Before.quantity[m])
          => Succeeded

\* The clerk names sale 1, which holds stock and has another fee: sale 2 is
\* created and sale 1 is as it was.
C14_Witness ==
    /\ Unpermitted /\ Succeeded
    /\ Req.sale_id = 1 /\ Resp.sale_id = 2
    /\ Req.cart # << >>
    /\ \E m \in Medicines : Held(sale_items(Before.items, 1), m) > 0
    /\ Req.delivery_fee # Before.sales[1].delivery_fee
    /\ sales[1] = Before.sales[1]

\* ------------------------------------------------- amend with an empty cart
EmptyAmend == AmendRequest /\ Req.cart = << >>

\* C15: an amend with an empty cart succeeds, raises every medicine's
\* quantity by what the sale's former items held of it, leaves the sale with
\* no items and with total_amount equal to its delivery fee, the fee of the
\* request.
C15_EmptyAmendRestores ==
    EmptyAmend
    => /\ Succeeded
       /\ \A m \in Medicines : quantity[m] = Before.quantity[m] + HeldBefore(m)
       /\ sale_items(items, Req.sale_id) = << >>
       /\ sales[Req.sale_id].delivery_fee = Req.delivery_fee
       /\ sales[Req.sale_id].total_amount = sales[Req.sale_id].delivery_fee

C15_Witness ==
    /\ EmptyAmend /\ Succeeded
    /\ HeldBefore("A") > 0
    /\ quantity["A"] = Before.quantity["A"] + HeldBefore("A")
    /\ Before.sales[Req.sale_id].total_amount > 1
    /\ Req.delivery_fee = 1
    /\ sales[Req.sale_id].total_amount = 1
    /\ items = << >>

\* ------------------------------------------------- accounts and profiles
ProfilesOf(u) == SelectSeq(profiles, LAMBDA p : p.user = u)

\* C16: every saved account has exactly one Profile row and an account not
\* yet saved has none, and the profile of every superuser has role 'admin'.
C16_OneProfilePerUser ==
    \A u \in Accounts :
        /\ Len(ProfilesOf(u)) = (IF users[u].saved THEN 1 ELSE 0)
        /\ users[u].is_superuser
           => \A i \in DOMAIN profiles :
                 profiles[i].user = u => profiles[i].role = "admin"

\* A superuser, an account made by StaffCreationForm and a plain account
\* created first, each with its one profile.
C16_Witness ==
    /\ \A u \in Accounts : users[u].saved /\ Len(ProfilesOf(u)) = 1
    /\ users["root"].is_superuser /\ RoleOf(profiles, "root") = "admin"
    /\ ~users["ann"].is_superuser /\ RoleOf(profiles, "ann") = "staff"
    /\ RoleOf(profiles, "bob") = ""
    /\ profiles[1].user = "bob"

\* ------------------------------------------------------ stock conservation
\* C17: for every medicine, its quantity plus the quantities of the items
\* that reference it is what it was at the start, after any sequence of
\* requests served one after the other, successful or failed.
C17_StockConserved ==
    \A m \in Medicines :
        quantity[m] + Held(items, m) = initial.quantity[m] + Held(initial.items, m)

\* An amend has replaced items that held stock by a cart that takes another
\* quantity, and the stock is no longer the initial one.
C17_Witness ==
    /\ AmendRequest /\ Succeeded
    /\ Req.cart # << >>
    /\ \E m \in Medicines :
          /\ HeldBefore(m) > 0
          /\ Demand(Req.cart, m) # HeldBefore(m)
          /\ quantity[m] # initial.quantity[m]
    /\ items # initial.items

====
